---- MODULE Spec2Model ----
(***************************************************************************)
(* Model of the news agent: the keyword planner (plan_task), the desktop   *)
(* executor (NewsAgent.execute_plan / run), the mobile background runner   *)
(* (MobileNewsAgent.run_async / stop) and the web front end                *)
(* (web_interface.run_agent).                                              *)
(*                                                                         *)
(* Text is a sequence of one-character strings, so that lower-casing,      *)
(* concatenation and substring search are computed, not assumed.           *)
(***************************************************************************)
EXTENDS Integers, Sequences, FiniteSets, TLC

VARIABLES
    user_query,   \* per run: the query handed to run / run_async
    plan,         \* per run: the list plan_task returned
    results,      \* per run: the results mapping of the executor
    idx,          \* per run: number of loop iterations of the executor finished
    pc,           \* per run: position of the run's thread of control
    outcome,      \* per run: what the run handed back (return value / callback)
    articles,     \* the agent's self.articles
    calls,        \* number of calls of run made on the agent so far
    attempted,    \* per run (history): the step calls made, in order, each with
                  \* what the step function returned or raised
    is_running,   \* MobileNewsAgent.is_running
    stopped,      \* per run (history): stop() was called after run_async returned
    cancelAt,     \* per run (history): the number of steps begun when stop()
                  \* cleared the flag, -1 when it did not or the flag was set again
    current_task, \* web_interface.current_task: 0 for None, else the thread
    task_results, \* web_interface.task_results
    hpc,          \* per request: position of its handler
    response,     \* per request: what the handler answered
    accepted,     \* (history) the runs whose request was answered 'Agent started',
                  \* in the order of the answers
    answer        \* what the last GET /api/status answered, with (history) what
                  \* held when it answered

runVars == <<user_query, plan, results, idx, pc, outcome, articles, calls, attempted>>
mobileVars == <<is_running, stopped, cancelAt>>
webVars == <<current_task, task_results, hpc, response, accepted, answer>>
vars == <<runVars, mobileVars, webVars>>

-----------------------------------------------------------------------------
(* Bounds *)

MaxTokens == 2      \* a planner query is a concatenation of at most this many tokens
MaxRuns == 2        \* run threads started on one agent instance
MaxCalls == 2       \* successive calls of NewsAgent.run on one agent instance

Runs == 1..MaxRuns

\* the one thread of the sequential specifications
Main == CHOOSE r \in Runs : \A o \in Runs : r <= o

-----------------------------------------------------------------------------
(* Text *)

UpperChars == <<"A","B","C","D","E","F","G","H","I","J","K","L","M",
                "N","O","P","Q","R","S","T","U","V","W","X","Y","Z">>
LowerChars == <<"a","b","c","d","e","f","g","h","i","j","k","l","m",
                "n","o","p","q","r","s","t","u","v","w","x","y","z">>

\* str.lower() on one character
LowerChar(c) ==
    IF \E i \in 1..Len(UpperChars) : UpperChars[i] = c
    THEN LowerChars[CHOOSE i \in 1..Len(UpperChars) : UpperChars[i] = c]
    ELSE c

\* str.lower()
Lower(s) == [i \in 1..Len(s) |-> LowerChar(s[i])]

\* Python's `needle in hay` on strings
Contains(needle, hay) ==
    \E i \in 0..(Len(hay) - Len(needle)) :
        SubSeq(hay, i + 1, i + Len(needle)) = needle

\* any(word in text for word in words)
AnyIn(words, text) == \E w \in words : Contains(w, text)

-----------------------------------------------------------------------------
(* Planner *)

NewsWords == { <<"n","e","w","s">>,
               <<"a","r","t","i","c","l","e","s">>,
               <<"h","e","a","d","l","i","n","e","s">> }

TechWords == { <<"t","e","c","h">>,
               <<"t","e","c","h","n","o","l","o","g","y">>,
               <<"a","i">> }

CanonicalSteps == << "fetch_news_feeds", "extract_article_content",
                     "analyze_content_quality", "summarize_articles",
                     "rank_by_relevance", "generate_summary_report" >>

FallbackPlan == << "fetch_news_feeds", "summarize_articles", "generate_summary_report" >>

\* the news keywords matched without lower-casing the query
PlanNewsPartCaseSensitive(q) ==
    IF AnyIn(NewsWords, q) THEN CanonicalSteps ELSE << >>

\* the branch on the news keywords
PlanNewsPart(q) ==
    IF AnyIn(NewsWords, Lower(q)) THEN CanonicalSteps ELSE << >>

\* the filter put ahead of the last step of the plan
PlanTechPartFilterFirst(q, p) ==
    IF AnyIn(TechWords, Lower(q))
    THEN IF p = << >> THEN << "filter_tech_content" >>
         ELSE Append(Append(SubSeq(p, 1, Len(p) - 1), "filter_tech_content"), p[Len(p)])
    ELSE p

\* the branch on the tech keywords
PlanTechPart(q, p) ==
    IF AnyIn(TechWords, Lower(q)) THEN Append(p, "filter_tech_content") ELSE p

\* the fallback assigned only when the plan is not empty, i.e. never
PlanFallbackInverted(p) == IF p # << >> THEN p ELSE << >>

\* `if not plan: plan = [...]`
PlanFallback(p) == IF p = << >> THEN FallbackPlan ELSE p

\* NewsAgent.plan_task
plan_task(q) == PlanFallback(PlanTechPart(q, PlanNewsPart(q)))

\* MobileNewsAgent.plan_task
mobile_plan_task(q) ==
    LET p1 == IF AnyIn(NewsWords, Lower(q)) THEN CanonicalSteps ELSE << >>
        p2 == IF AnyIn(TechWords, Lower(q)) THEN Append(p1, "filter_tech_content") ELSE p1
    IN  IF p2 = << >> THEN FallbackPlan ELSE p2

-----------------------------------------------------------------------------
(* Articles and the two variants *)

Min(a, b) == IF a < b THEN a ELSE b

\* s[:n]
Take(s, n) == SubSeq(s, 1, Min(n, Len(s)))

\* a key that a dict does not hold
Absent == << "<absent>" >>
NoScore == -1

\* the four feed URLs of self.news_sources, by position
news_sources == << "bbc", "cnn", "reuters", "npr" >>

PerSourceLimit == 5

DesktopExtractLimit == 10
DesktopContentLimit == 2000
DesktopSentences == 3
DesktopSummaryLimit == 200
DesktopTopK == 5

MobileExtractLimit == 5
MobileContentLimit == 1500
MobileSentences == 2
MobileSummaryLimit == 150
MobileTopK == 3
MobileReportSummaryLimit == 120
MobileDefaultReadability == 50

\* what differs between NewsAgent and MobileNewsAgent
Desktop ==
    [ name |-> "desktop",
      initial_quality |-> NoScore,          \* fetch sets no quality_score key
      extract_limit |-> DesktopExtractLimit,
      content_limit |-> DesktopContentLimit,
      sentences |-> DesktopSentences,
      summary_limit |-> DesktopSummaryLimit,
      top_k |-> DesktopTopK,
      report_summary_limit |-> DesktopSummaryLimit ]

Mobile ==
    [ name |-> "mobile",
      initial_quality |-> 0,
      extract_limit |-> MobileExtractLimit,
      content_limit |-> MobileContentLimit,
      sentences |-> MobileSentences,
      summary_limit |-> MobileSummaryLimit,
      top_k |-> MobileTopK,
      report_summary_limit |-> MobileReportSummaryLimit ]

\* entry.get(key, default)
EntryGet(value, default) == IF value = Absent THEN default ELSE value

NoTitle == << "N","o"," ","t","i","t","l","e" >>

\* the dict built for one feed entry; serial stands for the identity of the dict
\* object, its position in all_articles when it was appended
NewArticle(v, entry, src) ==
    [ serial |-> 0,
      title |-> EntryGet(entry.title, NoTitle),
      link |-> EntryGet(entry.link, << >>),
      summary |-> EntryGet(entry.summary, << >>),
      source |-> news_sources[src],
      content |-> << >>,
      word_count |-> 0,
      readability_score |-> 0,
      relevance_score |-> 0,
      quality_score |-> v.initial_quality,
      ai_summary |-> Absent ]

\* the articles one source contributes: feedparser.parse raised (ok = FALSE) or
\* gave a feed whose first PerSourceLimit entries are taken
SourceArticles(v, feed, src) ==
    IF feed.ok
    THEN [ i \in 1..Min(PerSourceLimit, Len(feed.entries)) |->
              NewArticle(v, feed.entries[i], src) ]
    ELSE << >>

RECURSIVE FetchFrom(_, _, _)
FetchFrom(v, feeds, src) ==
    IF src > Len(news_sources) THEN << >>
    ELSE SourceArticles(v, feeds[src], src) \o FetchFrom(v, feeds, src + 1)

\* successful_sources: the sources whose try block ran to its end
SuccessfulSources(feeds) == Cardinality({ s \in 1..Len(news_sources) : feeds[s].ok })

\* What a step hands to the executor: the store it leaves, and either its result
\* record or the exception it raised.
Returned(store, result) == [ store |-> store, raised |-> FALSE, result |-> result ]
Raised(store, message) == [ store |-> store, raised |-> TRUE, result |-> [ exception |-> message ] ]

\* fetch_news_feeds
fetch_news_feeds(v, feeds) ==
    LET appended == FetchFrom(v, feeds, 1)
        all_articles == [ i \in 1..Len(appended) |-> [ appended[i] EXCEPT !.serial = i ] ]
        successful_sources == SuccessfulSources(feeds)
    IN  Returned(all_articles,
           IF v.name = "desktop"
           THEN [ total_articles |-> Len(all_articles),
                  successful_sources |-> successful_sources,
                  failed_sources |-> Len(news_sources) - successful_sources ]
           ELSE [ total_articles |-> Len(all_articles),
                  successful_sources |-> successful_sources ])

-----------------------------------------------------------------------------
(* extract_article_content *)

IsSpace(c) == c \in { " ", "\n", "\t" }

\* re.sub(r'\s+', ' ', content): each run of whitespace becomes one blank.
\* Computed by halves, the two results glued at the cut.
RECURSIVE Collapse(_)
Collapse(s) ==
    IF s = << >> THEN << >>
    ELSE IF Len(s) = 1 THEN (IF IsSpace(s[1]) THEN << " " >> ELSE s)
    ELSE LET m == Len(s) \div 2
             a == Collapse(SubSeq(s, 1, m))
             b == Collapse(SubSeq(s, m + 1, Len(s)))
         IN  IF a[Len(a)] = " " /\ b[1] = " " THEN a \o Tail(b) ELSE a \o b

\* .strip() of a text whose whitespace runs are already single blanks
Strip(s) ==
    LET a == IF s # << >> /\ IsSpace(s[1]) THEN Tail(s) ELSE s
    IN  IF a # << >> /\ IsSpace(a[Len(a)]) THEN SubSeq(a, 1, Len(a) - 1) ELSE a

Normalize(s) == Strip(Collapse(s))

\* len(content.split())
WordCount(s) ==
    Cardinality({ i \in 1..Len(s) : ~IsSpace(s[i]) /\ (i = 1 \/ IsSpace(s[i - 1])) })

\* one article of the loop: pages[i] is what fetching and parsing its link gave,
\* the page text or an exception
ExtractOne(v, a, page) ==
    IF a.link # << >> /\ page.ok
    THEN LET content == Normalize(page.text)
         IN  [ a EXCEPT !.content = Take(content, v.content_limit),
                        !.word_count = WordCount(content) ]
    ELSE a

\* the loop run over the whole store
ExtractWithoutLimit(v, store, pages) ==
    Returned([ i \in 1..Len(store) |-> ExtractOne(v, store[i], pages[i]) ],
             [ extracted_articles |->
                  Cardinality({ i \in 1..Len(store) : store[i].link # << >> /\ pages[i].ok }) ])

extract_article_content(v, store, pages) ==
    LET touched == 1..Min(v.extract_limit, Len(store))
        extracted_count == Cardinality({ i \in touched : store[i].link # << >> /\ pages[i].ok })
    IN  Returned([ i \in 1..Len(store) |->
                      IF i \in touched THEN ExtractOne(v, store[i], pages[i]) ELSE store[i] ],
                 [ extracted_articles |-> extracted_count ])

-----------------------------------------------------------------------------
(* analyze_content_quality *)

WordsSome == 100
WordsMany == 300
TitleLong == 10
BonusWords == 20
BonusTitle == 10
BonusSummary == 10

\* the indicators added to the score the article already has
QualityScoreAccumulates(a) ==
      (IF a.quality_score = NoScore THEN 0 ELSE a.quality_score)
    + (IF a.word_count > WordsSome THEN BonusWords ELSE 0)
    + (IF a.word_count > WordsMany THEN BonusWords ELSE 0)
    + (IF Len(a.title) > TitleLong THEN BonusTitle ELSE 0)
    + (IF a.summary # << >> THEN BonusSummary ELSE 0)

QualityScore(a) ==
      (IF a.word_count > WordsSome THEN BonusWords ELSE 0)
    + (IF a.word_count > WordsMany THEN BonusWords ELSE 0)
    + (IF Len(a.title) > TitleLong THEN BonusTitle ELSE 0)
    + (IF a.summary # << >> THEN BonusSummary ELSE 0)

RECURSIVE SumOver(_, _)
SumOver(f, S) ==
    IF S = {} THEN 0
    ELSE LET x == CHOOSE y \in S : TRUE IN f[x] + SumOver(f, S \ {x})

\* round(num / den, 2), in hundredths (round half to even, den > 0)
RoundHundredths(num, den) ==
    LET q == (100 * num) \div den
        r == (100 * num) % den
    IN  IF 2 * r > den THEN q + 1
        ELSE IF 2 * r < den THEN q
        ELSE IF q % 2 = 0 THEN q ELSE q + 1

\* one article of the loop, textstat having returned `value`
AnalyzeOne(a, value) ==
    [ a EXCEPT !.readability_score = value, !.quality_score = QualityScore(a) ]

\* reads[i] is what textstat.flesch_reading_ease gives for article i: a value or
\* an exception. The desktop loop has no handler around it, the mobile loop
\* substitutes the default.
analyze_content_quality(v, store, reads) ==
    LET n == Len(store)
        failing == { i \in 1..n : store[i].content # << >> /\ ~reads[i].ok }
        firstBad == IF v.name = "desktop" /\ failing # {}
                THEN CHOOSE i \in failing : \A j \in failing : i <= j
                ELSE n + 1
        after == [ i \in 1..n |->
                     IF i < firstBad /\ store[i].content # << >>
                     THEN AnalyzeOne(store[i],
                                     IF reads[i].ok THEN reads[i].value
                                     ELSE MobileDefaultReadability)
                     ELSE store[i] ]
        scored == { i \in 1..n : after[i].readability_score # 0 }
        analyzed == Cardinality({ i \in 1..n : after[i].content # << >> })
    IN  IF firstBad <= n THEN Raised(after, "readability")
        ELSE IF v.name = "desktop"
        THEN Returned(after,
                [ analyzed_articles |-> analyzed,
                  average_readability |->
                      RoundHundredths(
                          SumOver([ i \in 1..n |-> after[i].readability_score ], scored),
                          IF Cardinality(scored) > 1 THEN Cardinality(scored) ELSE 1) ])
        ELSE Returned(after, [ analyzed_articles |-> analyzed ])

-----------------------------------------------------------------------------
(* summarize_articles *)

SummarizeMinLen == 100

Ellipsis == << ".", ".", "." >>
NoSummaryAvailable ==
    << "N","o"," ","s","u","m","m","a","r","y"," ","a","v","a","i","l","a","b","l","e" >>

\* '. '.join(content.split('. ')[:n]): the text before the n-th ". ", or all of it
JoinFirstSentences(s, n) ==
    LET seps == { i \in 1..(Len(s) - 1) : s[i] = "." /\ s[i + 1] = " " }
    IN  IF Cardinality(seps) < n THEN s
        ELSE LET cut == CHOOSE i \in seps : Cardinality({ j \in seps : j <= i }) = n
             IN  SubSeq(s, 1, cut - 1)

\* the feed summary never used
SummarizeOneWithoutFeedSummary(v, a) ==
    IF a.content # << >> /\ Len(a.content) > SummarizeMinLen
    THEN [ a EXCEPT !.ai_summary =
              Take(JoinFirstSentences(a.content, v.sentences), v.summary_limit) \o Ellipsis ]
    ELSE [ a EXCEPT !.ai_summary = NoSummaryAvailable ]

SummarizeOne(v, a) ==
    IF a.content # << >> /\ Len(a.content) > SummarizeMinLen
    THEN [ a EXCEPT !.ai_summary =
              Take(JoinFirstSentences(a.content, v.sentences), v.summary_limit) \o Ellipsis ]
    ELSE [ a EXCEPT !.ai_summary =
              IF a.summary # << >> THEN Take(a.summary, v.summary_limit)
              ELSE NoSummaryAvailable ]

summarize_articles(v, store) ==
    Returned([ i \in 1..Len(store) |-> SummarizeOne(v, store[i]) ],
             [ summarized_articles |->
                  Cardinality({ i \in 1..Len(store) :
                      store[i].content # << >> /\ Len(store[i].content) > SummarizeMinLen }) ])

-----------------------------------------------------------------------------
(* rank_by_relevance *)

TitleKeywords == { << "b","r","e","a","k","i","n","g" >>,
                   << "u","r","g","e","n","t" >>,
                   << "m","a","j","o","r" >>,
                   << "s","i","g","n","i","f","i","c","a","n","t" >>,
                   << "i","m","p","o","r","t","a","n","t" >> }

UrgencyBonus == 20
ReadabilityGood == 60
ReadabilityBonus == 10
JitterMax == 10

\* article.get('quality_score', 0)
GetQuality(a) == IF a.quality_score = NoScore THEN 0 ELSE a.quality_score

\* the score without the random term
BaseScore(a) ==
      (IF AnyIn(TitleKeywords, Lower(a.title)) THEN UrgencyBonus ELSE 0)
    + GetQuality(a)
    + (IF a.readability_score > ReadabilityGood THEN ReadabilityBonus ELSE 0)

\* the sort left out
SortKeepsOrder(store) == store

\* a descending sort that turns equal keys round
SortTurnsTies(store) ==
    LET n == Len(store)
        place(i) == 1 + Cardinality({ j \in 1..n :
                          \/ store[j].relevance_score > store[i].relevance_score
                          \/ /\ store[j].relevance_score = store[i].relevance_score
                             /\ j > i })
    IN  [ k \in 1..n |-> store[CHOOSE i \in 1..n : place(i) = k] ]

\* list.sort(key = relevance_score, reverse = True): descending, equal keys in
\* their former order
SortByRelevance(store) ==
    LET n == Len(store)
        place(i) == 1 + Cardinality({ j \in 1..n :
                          \/ store[j].relevance_score > store[i].relevance_score
                          \/ /\ store[j].relevance_score = store[i].relevance_score
                             /\ j < i })
    IN  [ k \in 1..n |-> store[CHOOSE i \in 1..n : place(i) = k] ]

\* jitter[i] is what random.randint(0, JitterMax) gave for article i
rank_by_relevance(v, store, jitter) ==
    LET scored == [ i \in 1..Len(store) |->
                      [ store[i] EXCEPT !.relevance_score = BaseScore(store[i]) + jitter[i] ] ]
        sorted == SortByRelevance(scored)
    IN  Returned(sorted,
           IF v.name = "desktop"
           THEN [ total_ranked |-> Len(sorted),
                  top_score |-> IF sorted # << >> THEN sorted[1].relevance_score ELSE 0 ]
           ELSE [ total_ranked |-> Len(sorted) ])

-----------------------------------------------------------------------------
(* filter_tech_content *)

FilterKeywords ==
    { << "a","i" >>,
      << "a","r","t","i","f","i","c","i","a","l"," ","i","n","t","e","l","l","i","g","e","n","c","e" >>,
      << "m","a","c","h","i","n","e"," ","l","e","a","r","n","i","n","g" >>,
      << "t","e","c","h","n","o","l","o","g","y" >>,
      << "s","o","f","t","w","a","r","e" >>,
      << "c","o","m","p","u","t","e","r" >>,
      << "d","i","g","i","t","a","l" >>,
      << "t","e","c","h" >>,
      << "i","n","n","o","v","a","t","i","o","n" >>,
      << "s","t","a","r","t","u","p" >> }

\* the content left out of the text searched
IsTechByTitle(a) == AnyIn(FilterKeywords, Lower(a.title \o << " " >> \o a.summary))

IsTech(a) ==
    AnyIn(FilterKeywords, Lower(a.title \o << " " >> \o a.summary \o << " " >> \o a.content))

filter_tech_content(v, store) ==
    LET tech_articles == SelectSeq(store, IsTech)
    IN  Returned(tech_articles, [ tech_articles_found |-> Len(tech_articles) ])

-----------------------------------------------------------------------------
(* generate_summary_report.  The timestamp (wall clock) and the desktop      *)
(* report's most_common_topics are left out of the record.                   *)

HighAbove == 30
MediumAbove == 15

NoArticlesReport == [ report |-> "No articles found to summarize." ]

ReportEntry(v, a, rank) ==
    [ rank |-> rank,
      title |-> a.title,
      summary |-> Take(IF a.ai_summary = Absent THEN a.summary ELSE a.ai_summary,
                       v.report_summary_limit),
      relevance_score |-> a.relevance_score,
      word_count |-> a.word_count,
      link |-> a.link ]

\* 'High' if avg > 30 else 'Medium' if avg > 15 else 'Basic', avg = total / count
QualityLabel(total, count) ==
    IF total > HighAbove * count THEN "High"
    ELSE IF total > MediumAbove * count THEN "Medium"
    ELSE "Basic"

\* the report built without the test for an empty store, the mean taken over
\* max(1, len)
ReportWithoutEmptyTest(v, store) ==
    LET n == Len(store)
        total == SumOver([ i \in 1..n |-> store[i].relevance_score ], 1..n)
        count == IF n > 1 THEN n ELSE 1
    IN  Returned(store,
           [ total_articles_processed |-> n,
             top_articles |-> [ i \in 1..Min(v.top_k, n) |-> ReportEntry(v, store[i], i) ],
             insights |-> [ average_relevance_score |-> RoundHundredths(total, count),
                            content_quality |-> QualityLabel(total, count) ] ])

generate_summary_report(v, store) ==
    IF store = << >> THEN Returned(store, NoArticlesReport)
    ELSE LET n == Len(store)
             total == SumOver([ i \in 1..n |-> store[i].relevance_score ], 1..n)
         IN  Returned(store,
                [ total_articles_processed |-> n,
                  top_articles |-> [ i \in 1..Min(v.top_k, n) |-> ReportEntry(v, store[i], i) ],
                  insights |-> [ average_relevance_score |-> RoundHundredths(total, n),
                                 content_quality |-> QualityLabel(total, n) ] ])

-----------------------------------------------------------------------------
(* The environment of a run: what the feeds, the pages, textstat and the     *)
(* random generator can answer.                                              *)

\* s * n
Repeat(s, n) == [ i \in 1..(n * Len(s)) |-> s[((i - 1) % Len(s)) + 1] ]

EntryAI == [ title |-> << "A","I" >>, link |-> << "u" >>, summary |-> << >> ]
EntryStorm == [ title |-> << "M","a","j","o","r"," ","s","t","o","r","m" >>,
                link |-> << >>,
                summary |-> << "w","e","t" >> ]
EntryBare == [ title |-> Absent, link |-> Absent, summary |-> Absent ]

FeedDown == [ ok |-> FALSE, entries |-> << >> ]
Feed(entries) == [ ok |-> TRUE, entries |-> entries ]

\* one answer per feed source
Worlds ==
    { << FeedDown, FeedDown, FeedDown, FeedDown >>,
      << Feed(<< EntryAI, EntryStorm >>), FeedDown, Feed(<< >>), Feed(<< EntryBare >>) >> }

PageDown == [ ok |-> FALSE, text |-> << >> ]
Page(text) == [ ok |-> TRUE, text |-> text ]

LongWords == 101

PageOutcomes ==
    { PageDown,
      Page(<< " ", "o", "l", "d", " ", " ", "m", "a", "p", "\n" >>),
      Page(Repeat(<< "a", ".", " " >>, LongWords)) }

ReadDown == [ ok |-> FALSE, value |-> 0 ]
Read(value) == [ ok |-> TRUE, value |-> value ]

ReadOutcomes == { ReadDown, Read(40), Read(70) }

\* the run-level specifications draw the jitter from the two ends of
\* random.randint(0, JitterMax)
RunJitter == { 0, JitterMax }

Catalogue == { "fetch_news_feeds", "extract_article_content", "analyze_content_quality",
               "summarize_articles", "rank_by_relevance", "generate_summary_report",
               "filter_tech_content" }

\* what the sequential specifications let the environment answer
RunEnv == [ worlds |-> Worlds, pages |-> PageOutcomes, reads |-> ReadOutcomes,
            jitter |-> RunJitter ]

\* what the specifications with several threads let it answer: one answer
\* each, so that their states differ by the interleaving and by the faults
ThreadEnv ==
    [ worlds |-> { << Feed(<< EntryAI, EntryStorm >>), FeedDown, Feed(<< >>), Feed(<< EntryBare >>) >> },
      pages |-> { Page(<< "o", "l", "d", " ", " ", "m", "a", "p" >>) },
      reads |-> { Read(70) },
      jitter |-> { JitterMax } ]

\* every way the call of `step` on `store` can end in environment env, a fault
\* in its first statement (the logging / status call) aside
StepOutcomes(v, env, step, store) ==
    LET n == Len(store) IN
    CASE step = "fetch_news_feeds" ->
            { fetch_news_feeds(v, w) : w \in env.worlds }
      [] step = "extract_article_content" ->
            { extract_article_content(v, store, pg) : pg \in [ 1..n -> env.pages ] }
      [] step = "analyze_content_quality" ->
            { analyze_content_quality(v, store, rd) : rd \in [ 1..n -> env.reads ] }
      [] step = "summarize_articles" ->
            { summarize_articles(v, store) }
      [] step = "rank_by_relevance" ->
            { rank_by_relevance(v, store, j) : j \in [ 1..n -> env.jitter ] }
      [] step = "generate_summary_report" ->
            { generate_summary_report(v, store) }
      [] step = "filter_tech_content" ->
            { filter_tech_content(v, store) }

\* the step's first statement raises: nothing of the store is touched
FaultOutcome(store) == Raised(store, "fault")

RunQueries ==
    { << "n","e","w","s" >>,
      << "T","e","c","h"," ","n","e","w","s" >>,
      << "a","i" >>,
      << "h","i" >> }

\* the queries of the specifications with several threads
ThreadQueries ==
    { << "T","e","c","h"," ","n","e","w","s" >>,
      << "h","i" >> }

-----------------------------------------------------------------------------
(* NewsAgent.run and execute_plan, called from one thread, one call after    *)
(* the other on the same agent *)

NoResults == [ s \in {} |-> 0 ]

\* results[step] = value
Put(res, step, value) == (step :> value) @@ res

\* f"Error: {e}"
ErrorMarker(e) == [ error |-> e.exception ]

\* no GET /api/status was answered yet
NoAnswer == [ status |-> "none" ]

\* nothing of the mobile agent or of the web front end has happened
InitOthers ==
    /\ is_running = FALSE
    /\ stopped = [ r \in Runs |-> FALSE ]
    /\ cancelAt = [ r \in Runs |-> -1 ]
    /\ current_task = 0
    /\ task_results = NoResults
    /\ hpc = [ r \in Runs |-> "none" ]
    /\ response = [ r \in Runs |-> "none" ]
    /\ accepted = << >>
    /\ answer = NoAnswer

InitRuns ==
    /\ InitOthers
    /\ user_query = [ r \in Runs |-> << >> ]
    /\ plan = [ r \in Runs |-> << >> ]
    /\ results = [ r \in Runs |-> NoResults ]
    /\ idx = [ r \in Runs |-> 0 ]
    /\ pc = [ r \in Runs |-> "idle" ]
    /\ outcome = [ r \in Runs |-> NoResults ]
    /\ articles = << >>
    /\ calls = 0
    /\ attempted = [ r \in Runs |-> << >> ]

\* run(user_query) up to the call of execute_plan; the caller makes its next
\* call when the earlier one has returned
Run(r, q) ==
    /\ pc[r] \in { "idle", "returned" }
    /\ calls < MaxCalls
    /\ calls' = calls + 1
    /\ user_query' = [ user_query EXCEPT ![r] = q ]
    /\ plan' = [ plan EXCEPT ![r] = plan_task(q) ]
    /\ results' = [ results EXCEPT ![r] = NoResults ]
    /\ idx' = [ idx EXCEPT ![r] = 0 ]
    /\ pc' = [ pc EXCEPT ![r] = "executing" ]
    /\ outcome' = [ outcome EXCEPT ![r] = NoResults ]
    /\ attempted' = [ attempted EXCEPT ![r] = << >> ]
    /\ UNCHANGED articles
    /\ UNCHANGED << mobileVars, webVars >>

\* plans handed to execute_plan directly, without the planner
DirectPlans ==
    { << "fetch_news_feeds", "analyze_content_quality", "rank_by_relevance",
         "generate_summary_report" >>,
      << "generate_summary_report", "fetch_news_feeds" >> }

\* execute_plan(p) called on its own
CallExecutePlan(r, p) ==
    /\ pc[r] \in { "idle", "returned" }
    /\ calls < MaxCalls
    /\ calls' = calls + 1
    /\ user_query' = [ user_query EXCEPT ![r] = << >> ]
    /\ plan' = [ plan EXCEPT ![r] = p ]
    /\ results' = [ results EXCEPT ![r] = NoResults ]
    /\ idx' = [ idx EXCEPT ![r] = 0 ]
    /\ pc' = [ pc EXCEPT ![r] = "executing_plan" ]
    /\ outcome' = [ outcome EXCEPT ![r] = NoResults ]
    /\ attempted' = [ attempted EXCEPT ![r] = << >> ]
    /\ UNCHANGED articles
    /\ UNCHANGED << mobileVars, webVars >>

\* the history entry of one step call
Call(step, o) == [ step |-> step, raised |-> o.raised, result |-> o.result ]

\* a step failed without leaving an entry
RecordDropsFailure(res, step, o) ==
    IF o.raised THEN res ELSE Put(res, step, o.result)

\* the try / except of one loop iteration: what the results mapping holds after
\* the step returned or raised
Record(res, step, o) ==
    Put(res, step, IF o.raised THEN ErrorMarker(o.result) ELSE o.result)

\* one iteration of the loop of execute_plan, in environment env
ExecuteStepIn(r, env) ==
    /\ pc[r] \in { "executing", "executing_plan" }
    /\ idx[r] < Len(plan[r])
    /\ LET step == plan[r][idx[r] + 1] IN
       \E o \in StepOutcomes(Desktop, env, step, articles) \cup { FaultOutcome(articles) } :
          /\ articles' = o.store
          /\ results' = [ results EXCEPT ![r] = Record(@, step, o) ]
          /\ attempted' = [ attempted EXCEPT ![r] = Append(@, Call(step, o)) ]
    /\ idx' = [ idx EXCEPT ![r] = @ + 1 ]
    /\ UNCHANGED << user_query, plan, pc, outcome, calls >>
    /\ UNCHANGED << mobileVars, webVars >>

ExecuteStep(r) == ExecuteStepIn(r, RunEnv)

\* execute_plan, called on its own, returns the results mapping
ReturnPlan(r) ==
    /\ pc[r] = "executing_plan"
    /\ idx[r] = Len(plan[r])
    /\ outcome' = [ outcome EXCEPT ![r] = results[r] ]
    /\ pc' = [ pc EXCEPT ![r] = "returned" ]
    /\ UNCHANGED << user_query, plan, results, idx, articles, calls, attempted >>
    /\ UNCHANGED << mobileVars, webVars >>

\* execute_plan returns and run builds its return value
Return(r) ==
    /\ pc[r] = "executing"
    /\ idx[r] = Len(plan[r])
    /\ outcome' = [ outcome EXCEPT ![r] =
          [ query |-> user_query[r],
            plan |-> plan[r],
            execution_results |-> results[r],
            articles_processed |-> Len(articles) ] ]
    /\ pc' = [ pc EXCEPT ![r] = "returned" ]
    /\ UNCHANGED << user_query, plan, results, idx, articles, calls, attempted >>
    /\ UNCHANGED << mobileVars, webVars >>

NextDesktop ==
    \/ \E q \in RunQueries : Run(Main, q)
    \/ \E p \in DirectPlans : CallExecutePlan(Main, p)
    \/ ExecuteStep(Main)
    \/ Return(Main)
    \/ ReturnPlan(Main)

SpecDesktop == InitRuns /\ [][NextDesktop]_vars

\* one agent reused for successive calls of run, as the web front end reuses
\* its global agent for successive requests
NextReuse ==
    \/ \E q \in RunQueries : Run(Main, q)
    \/ ExecuteStep(Main)
    \/ Return(Main)

SpecReuse == InitRuns /\ [][NextReuse]_vars

-----------------------------------------------------------------------------
(* The planner alone: both plan_task functions applied to a query built from *)
(* a few tokens.                                                             *)

Tokens ==
    { << "n","e","w","s" >>,
      << "N","E","W","S" >>,
      << "H","e","a","d","l","i","n","e","s" >>,
      << "a","r","t","i","c","l","e","s" >>,
      << "t","e","c","h" >>,
      << "T","e","c","h","n","o","l","o","g","y" >>,
      << "A","I" >>,
      << "a" >>, << "i" >>, << "n" >>, << "e","w","s" >>,
      << " " >>,
      << "r","a","i","n" >>,
      << "t","o","p" >> }

RECURSIVE QueriesOf(_)
QueriesOf(n) ==
    IF n = 0 THEN { << >> }
    ELSE LET shorter == QueriesOf(n - 1)
         IN  shorter \cup { q \o t : q \in shorter, t \in Tokens }

Queries == QueriesOf(MaxTokens)

InitPlanner ==
    /\ InitOthers
    /\ \E q \in Queries :
          user_query = [ r \in Runs |-> IF r = Main THEN q ELSE << >> ]
    /\ plan = [ r \in Runs |-> << >> ]
    /\ results = [ r \in Runs |-> NoResults ]
    /\ idx = [ r \in Runs |-> 0 ]
    /\ pc = [ r \in Runs |-> "idle" ]
    /\ outcome = [ r \in Runs |-> NoResults ]
    /\ articles = << >>
    /\ calls = 0
    /\ attempted = [ r \in Runs |-> << >> ]

\* NewsAgent.plan_task(user_query)
PlanDesktop ==
    /\ pc[Main] = "idle"
    /\ plan' = [ plan EXCEPT ![Main] = plan_task(user_query[Main]) ]
    /\ pc' = [ pc EXCEPT ![Main] = "planned" ]
    /\ UNCHANGED << user_query, results, idx, outcome, articles, calls, attempted >>
    /\ UNCHANGED << mobileVars, webVars >>

\* MobileNewsAgent.plan_task(user_query)
PlanMobile ==
    /\ pc[Main] = "idle"
    /\ plan' = [ plan EXCEPT ![Main] = mobile_plan_task(user_query[Main]) ]
    /\ pc' = [ pc EXCEPT ![Main] = "planned_mobile" ]
    /\ UNCHANGED << user_query, results, idx, outcome, articles, calls, attempted >>
    /\ UNCHANGED << mobileVars, webVars >>

NextPlanner == PlanDesktop \/ PlanMobile

SpecPlanner == InitPlanner /\ [][NextPlanner]_vars

StepNames(p) == { p[i] : i \in 1..Len(p) }

\* the same letter, whatever its case
SameLetter(c, d) ==
    \/ c = d
    \/ \E i \in 1..Len(UpperChars) :
          { c, d } = { UpperChars[i], LowerChars[i] }

\* word occurs in q at some position, letter case ignored
Mentions(q, word) ==
    \E at \in 1..Len(q) :
        /\ at + Len(word) - 1 <= Len(q)
        /\ \A k \in 1..Len(word) : SameLetter(q[at + k - 1], word[k])

MentionsNews(q) == \E w \in NewsWords : Mentions(q, w)
MentionsTech(q) == \E w \in TechWords : Mentions(q, w)

Planned == pc[Main] \in { "planned", "planned_mobile" }

\* C3: for a query that mentions a news keyword, plan_task returns the six
\* canonical steps in order, followed by filter_tech_content as seventh and
\* last step exactly when the query also mentions a tech keyword.
C3_NewsQueryGetsCanonicalPlan ==
    (Planned /\ MentionsNews(user_query[Main])) =>
        IF MentionsTech(user_query[Main])
        THEN plan[Main] = Append(CanonicalSteps, "filter_tech_content")
        ELSE plan[Main] = CanonicalSteps

\* an upper-case news keyword and a tech keyword that spans two tokens
C3_Witness ==
    /\ pc[Main] = "planned"
    /\ user_query[Main] = << "N","E","W","S","r","a","i","n" >>
    /\ Len(plan[Main]) = 7

\* C4: for a query that mentions neither a news keyword nor a tech keyword,
\* plan_task returns the three-step fallback plan.
C4_OtherQueryGetsFallbackPlan ==
    (Planned /\ ~MentionsNews(user_query[Main]) /\ ~MentionsTech(user_query[Main])) =>
        plan[Main] = << "fetch_news_feeds", "summarize_articles", "generate_summary_report" >>

C4_Witness ==
    /\ pc[Main] = "planned_mobile"
    /\ user_query[Main] = << "e","w","s","t","o","p" >>
    /\ Len(plan[Main]) = 3

\* C5: whatever the query, the plan is the canonical sequence, the canonical
\* sequence followed by filter_tech_content, or the fallback plan; it starts
\* with fetch_news_feeds, contains generate_summary_report and repeats no step.
C5_PlanIsOneOfThree ==
    Planned =>
        /\ plan[Main] \in { CanonicalSteps,
                            Append(CanonicalSteps, "filter_tech_content"),
                            FallbackPlan }
        /\ plan[Main][1] = "fetch_news_feeds"
        /\ "generate_summary_report" \in StepNames(plan[Main])
        /\ Cardinality(StepNames(plan[Main])) = Len(plan[Main])

-----------------------------------------------------------------------------
(* MobileNewsAgent.run_async and stop.  Each call of run_async starts a      *)
(* thread running run_task; the caller may call run_async and stop at any    *)
(* moment.  A step takes two actions, its start and its end; its effect on   *)
(* self.articles is applied at its end.  A callback is registered, as in     *)
(* NewsAgentApp.build.                                                       *)

\* run_async(q): the thread is created and started, run_async returns
RunAsync(r, q) ==
    /\ pc[r] = "idle"
    /\ \A o \in Runs : o < r => pc[o] # "idle"
    /\ user_query' = [ user_query EXCEPT ![r] = q ]
    /\ pc' = [ pc EXCEPT ![r] = "started" ]
    /\ UNCHANGED << plan, results, idx, outcome, articles, calls, attempted >>
    /\ UNCHANGED << mobileVars, webVars >>

\* stop(): clears the flag
Stop ==
    /\ is_running' = FALSE
    /\ stopped' = [ r \in Runs |-> stopped[r] \/ pc[r] # "idle" ]
    /\ cancelAt' = [ r \in Runs |->
          IF cancelAt[r] # -1 THEN cancelAt[r]
          ELSE IF pc[r] = "check" THEN idx[r]
          ELSE IF pc[r] = "step" THEN idx[r] + 1
          ELSE -1 ]
    /\ UNCHANGED << runVars, webVars >>

\* run_task from its first statement to the head of the loop:
\* self.is_running = True, plan = self.plan_task(user_query), results = {}
TaskBegin(r) ==
    /\ pc[r] = "started"
    /\ is_running' = TRUE
    /\ cancelAt' = [ o \in Runs |-> IF pc[o] \in { "check", "step" } THEN -1 ELSE cancelAt[o] ]
    /\ plan' = [ plan EXCEPT ![r] = mobile_plan_task(user_query[r]) ]
    /\ results' = [ results EXCEPT ![r] = NoResults ]
    /\ idx' = [ idx EXCEPT ![r] = 0 ]
    /\ pc' = [ pc EXCEPT ![r] = "check" ]
    /\ UNCHANGED << user_query, outcome, articles, calls, attempted, stopped, webVars >>

\* the flag is not looked at
MayStartStepIgnoresFlag(flag) == TRUE

\* `if not self.is_running: break`
MayStartStep(flag) == flag

\* the head of the loop: the plan is exhausted, or the flag is cleared and the
\* loop is left, or the next step starts
TaskCheck(r) ==
    /\ pc[r] = "check"
    /\ IF idx[r] < Len(plan[r]) /\ MayStartStep(is_running)
       THEN /\ pc' = [ pc EXCEPT ![r] = "step" ]
       ELSE /\ pc' = [ pc EXCEPT ![r] = "finish" ]
    /\ UNCHANGED << user_query, plan, results, idx, outcome, articles, calls, attempted >>
    /\ UNCHANGED << mobileVars, webVars >>

\* the exception leaves the loop
AfterStep(o) == IF o.raised THEN "except" ELSE "check"

\* the step that was started ends: it returns and its result is stored, or it
\* raises and the exception leaves the loop for the handler of run_task
TaskStep(r) ==
    /\ pc[r] = "step"
    /\ LET step == plan[r][idx[r] + 1] IN
       \E o \in StepOutcomes(Mobile, ThreadEnv, step, articles) \cup { FaultOutcome(articles) } :
          /\ articles' = o.store
          /\ results' = [ results EXCEPT ![r] = IF o.raised THEN @ ELSE Put(@, step, o.result) ]
          /\ attempted' = [ attempted EXCEPT ![r] = Append(@, Call(step, o)) ]
          /\ pc' = [ pc EXCEPT ![r] = AfterStep(o) ]
          /\ outcome' = [ outcome EXCEPT ![r] = IF o.raised THEN o.result ELSE @ ]
    /\ idx' = [ idx EXCEPT ![r] = @ + 1 ]
    /\ UNCHANGED << user_query, plan, calls >>
    /\ UNCHANGED << mobileVars, webVars >>

\* after the loop: the results callback
TaskFinish(r) ==
    /\ pc[r] = "finish"
    /\ outcome' = [ outcome EXCEPT ![r] =
          [ type |-> "results",
            data |-> [ query |-> user_query[r],
                       plan |-> plan[r],
                       execution_results |-> results[r],
                       articles_processed |-> Len(articles) ] ] ]
    /\ pc' = [ pc EXCEPT ![r] = "finally" ]
    /\ UNCHANGED << user_query, plan, results, idx, articles, calls, attempted >>
    /\ UNCHANGED << mobileVars, webVars >>

\* `except Exception as e`: the error callback
TaskExcept(r) ==
    /\ pc[r] = "except"
    /\ outcome' = [ outcome EXCEPT ![r] = [ type |-> "error", message |-> @.exception ] ]
    /\ pc' = [ pc EXCEPT ![r] = "finally" ]
    /\ UNCHANGED << user_query, plan, results, idx, articles, calls, attempted >>
    /\ UNCHANGED << mobileVars, webVars >>

\* the thread ends without the finally clause
TaskFinallyKeepsFlag(r) ==
    /\ pc[r] = "finally"
    /\ pc' = [ pc EXCEPT ![r] = "ended" ]
    /\ UNCHANGED << user_query, plan, results, idx, outcome, articles, calls, attempted >>
    /\ UNCHANGED << mobileVars, webVars >>

\* `finally: self.is_running = False`, and the thread ends
TaskFinally(r) ==
    /\ pc[r] = "finally"
    /\ is_running' = FALSE
    /\ pc' = [ pc EXCEPT ![r] = "ended" ]
    /\ UNCHANGED << user_query, plan, results, idx, outcome, articles, calls, attempted >>
    /\ UNCHANGED << stopped, cancelAt, webVars >>

NextMobile ==
    \/ \E r \in Runs, q \in ThreadQueries : RunAsync(r, q)
    \/ Stop
    \/ \E r \in Runs :
          \/ TaskBegin(r)
          \/ TaskCheck(r)
          \/ TaskStep(r)
          \/ TaskFinish(r)
          \/ TaskExcept(r)
          \/ TaskFinally(r)

SpecMobile == InitRuns /\ [][NextMobile]_vars

\* the statements of run_task on thread r
RunTask(r) ==
    \/ TaskBegin(r)
    \/ TaskCheck(r)
    \/ TaskStep(r)
    \/ TaskFinish(r)
    \/ TaskExcept(r)
    \/ TaskFinally(r)

\* the query of the runs that are followed to their end
FairQueries == { << "h","i" >> }

NextMobileFair ==
    \/ \E r \in Runs, q \in FairQueries : RunAsync(r, q)
    \/ Stop
    \/ \E r \in Runs : RunTask(r)

\* a started thread is scheduled again and again, and the step it is in
\* returns or raises; the caller may call run_async and stop, or not
SpecMobileFair ==
    /\ InitRuns
    /\ [][NextMobileFair]_vars
    /\ \A r \in Runs : WF_vars(RunTask(r))

-----------------------------------------------------------------------------
(* web_interface: POST /api/run_agent handled by concurrent request threads  *)
(* (the server started by app.run handles each request in its own thread),   *)
(* all on the one global NewsAgent.  Request h creates thread h.  A thread   *)
(* is alive from start() until run_agent_task has returned.                  *)

WebQueries == { << "h","i" >>, << "a","i" >> }

IsAlive(t) == pc[t] \in { "started", "executing" }

\* the request arrives: data.get('query', ...)
Post(h, q) ==
    /\ hpc[h] = "none"
    /\ \A o \in Runs : o < h => hpc[o] # "none"
    /\ hpc' = [ hpc EXCEPT ![h] = "check" ]
    /\ user_query' = [ user_query EXCEPT ![h] = q ]
    /\ UNCHANGED << plan, results, idx, pc, outcome, articles, calls, attempted >>
    /\ UNCHANGED << mobileVars, current_task, task_results, response, accepted, answer >>

\* `current_task and current_task.is_alive()`
Busy(task) == task # 0 /\ IsAlive(task)

\* `if current_task and current_task.is_alive(): return error, 400`
HandlerCheck(h) ==
    /\ hpc[h] = "check"
    /\ IF Busy(current_task)
       THEN /\ response' = [ response EXCEPT ![h] = "already_running" ]
            /\ hpc' = [ hpc EXCEPT ![h] = "done" ]
       ELSE /\ hpc' = [ hpc EXCEPT ![h] = "reset" ]
            /\ UNCHANGED response
    /\ UNCHANGED << runVars, mobileVars, current_task, task_results, accepted, answer >>

\* `task_results = None`
HandlerReset(h) ==
    /\ hpc[h] = "reset"
    /\ task_results' = NoResults
    /\ hpc' = [ hpc EXCEPT ![h] = "create" ]
    /\ UNCHANGED << runVars, mobileVars, current_task, response, accepted, answer >>

\* `current_task = threading.Thread(target=run_agent_task)`
HandlerCreate(h) ==
    /\ hpc[h] = "create"
    /\ current_task' = h
    /\ pc' = [ pc EXCEPT ![h] = "created" ]
    /\ hpc' = [ hpc EXCEPT ![h] = "start" ]
    /\ UNCHANGED << user_query, plan, results, idx, outcome, articles, calls, attempted >>
    /\ UNCHANGED << mobileVars, task_results, response, accepted, answer >>

\* `current_task.start()` on whatever thread the global names by now, and the
\* answer; starting a thread a second time raises RuntimeError
HandlerStart(h) ==
    /\ hpc[h] = "start"
    /\ IF pc[current_task] = "created"
       THEN /\ pc' = [ pc EXCEPT ![current_task] = "started" ]
            /\ response' = [ response EXCEPT ![h] = "started" ]
            /\ accepted' = Append(accepted, h)
       ELSE /\ response' = [ response EXCEPT ![h] = "server_error" ]
            /\ UNCHANGED << pc, accepted >>
    /\ hpc' = [ hpc EXCEPT ![h] = "done" ]
    /\ UNCHANGED << user_query, plan, results, idx, outcome, articles, calls, attempted >>
    /\ UNCHANGED << mobileVars, current_task, task_results, answer >>

\* run_agent_task up to the loop of execute_plan: agent.run plans the query
ThreadBegin(t) ==
    /\ pc[t] = "started"
    /\ plan' = [ plan EXCEPT ![t] = plan_task(user_query[t]) ]
    /\ results' = [ results EXCEPT ![t] = NoResults ]
    /\ idx' = [ idx EXCEPT ![t] = 0 ]
    /\ pc' = [ pc EXCEPT ![t] = "executing" ]
    /\ UNCHANGED << user_query, outcome, articles, calls, attempted >>
    /\ UNCHANGED << mobileVars, webVars >>

ThreadStep(t) == ExecuteStepIn(t, ThreadEnv)

\* agent.run returns, `task_results = agent.run(query)`, the thread ends
ThreadEnd(t) ==
    /\ pc[t] = "executing"
    /\ idx[t] = Len(plan[t])
    /\ LET returned == [ query |-> user_query[t],
                         plan |-> plan[t],
                         execution_results |-> results[t],
                         articles_processed |-> Len(articles) ]
       IN  /\ task_results' = returned
           /\ outcome' = [ outcome EXCEPT ![t] = returned ]
    /\ pc' = [ pc EXCEPT ![t] = "ended" ]
    /\ UNCHANGED << user_query, plan, results, idx, articles, calls, attempted >>
    /\ UNCHANGED << mobileVars, current_task, hpc, response, accepted, answer >>

\* the branch get_status takes
StatusOf(task, res) ==
    IF Busy(task) THEN "running"
    ELSE IF res # NoResults THEN "completed"
    ELSE "idle"

\* GET /api/status.  The two globals are read in one step; with the answer are
\* kept the run accepted last and whether an accepted run was still unfinished
\* at that moment.
GetStatus ==
    /\ LET status == StatusOf(current_task, task_results) IN
       answer' = [ status |-> status,
                   results |-> IF status = "completed" THEN task_results ELSE NoResults,
                   latest |-> IF accepted = << >> THEN 0 ELSE accepted[Len(accepted)],
                   unfinished |-> \E i \in 1..Len(accepted) : pc[accepted[i]] # "ended" ]
    /\ answer' # answer
    /\ UNCHANGED << runVars, mobileVars, current_task, task_results, hpc, response, accepted >>

NextWeb ==
    \/ \E h \in Runs, q \in WebQueries : Post(h, q)
    \/ GetStatus
    \/ \E h \in Runs :
          \/ HandlerCheck(h)
          \/ HandlerReset(h)
          \/ HandlerCreate(h)
          \/ HandlerStart(h)
    \/ \E t \in Runs :
          \/ ThreadBegin(t)
          \/ ThreadStep(t)
          \/ ThreadEnd(t)

SpecWeb == InitRuns /\ [][NextWeb]_vars

-----------------------------------------------------------------------------
(* The step functions called one at a time on an agent of either class, on   *)
(* stores the earlier steps of the pipeline produce.  pc[Main] names the     *)
(* class; attempted[Main] keeps, for each call, the store it found and what  *)
(* the environment answered.                                                 *)

Variant(name) == IF name = "desktop" THEN Desktop ELSE Mobile
VariantNames == { "desktop", "mobile" }

EntryUrgent == [ title |-> << "B","r","e","a","k","i","n","g",":"," ","c","h","i","p" >>,
                 link |-> << "v" >>,
                 summary |-> << "s" >> ]

ManyWords == 301

\* a page of ManyWords words
PageLong == Page(Repeat(<< "a", ".", " " >>, ManyWords))

\* the same entry served by two sources, another one between them
WorldTwins == << Feed(<< EntryAI >>), Feed(<< EntryUrgent >>), FeedDown, Feed(<< EntryAI >>) >>

WorldMixed == << Feed(<< EntryAI, EntryStorm >>), FeedDown, Feed(<< >>), Feed(<< EntryBare >>) >>

\* the history entry of one call in these specifications
Applied(step, before, input, o) ==
    [ step |-> step, before |-> before, input |-> input,
      raised |-> o.raised, result |-> o.result ]

LastCall == attempted[Main][Len(attempted[Main])]

\* the stores fetch, extract and analyze leave, in this order, for variant v;
\* every page answers, or none does
AnalyzedStores(v) ==
    LET fetched == { fetch_news_feeds(v, w).store : w \in { WorldTwins, WorldMixed } }
        extracted == UNION { { extract_article_content(v, st, [ i \in 1..Len(st) |-> pg ]).store :
                                  pg \in { PageDown, PageLong } } :
                             st \in fetched }
    IN  { analyze_content_quality(v, st, [ i \in 1..Len(st) |-> Read(70) ]).store :
             st \in extracted }

\* the same stores, and what an earlier rank_by_relevance makes of them
RankSeeds(v) ==
    AnalyzedStores(v) \cup
    UNION { { rank_by_relevance(v, st, j).store : j \in [ 1..Len(st) -> RunJitter ] } :
            st \in AnalyzedStores(v) }

\* a random term of twice the width
RankJitterWide == 0..(2 * JitterMax + 1)

\* random.randint(0, 10)
RankJitter == 0..JitterMax

InitSteps(name, store) ==
    /\ InitOthers
    /\ user_query = [ r \in Runs |-> << >> ]
    /\ plan = [ r \in Runs |-> << >> ]
    /\ results = [ r \in Runs |-> NoResults ]
    /\ idx = [ r \in Runs |-> 0 ]
    /\ pc = [ r \in Runs |-> IF r = Main THEN name ELSE "idle" ]
    /\ outcome = [ r \in Runs |-> NoResults ]
    /\ articles = store
    /\ calls = 0
    /\ attempted = [ r \in Runs |-> << >> ]

\* one call of a step function with the given input, o being how it ended
ApplyStep(step, input, o) ==
    /\ articles' = o.store
    /\ attempted' = [ attempted EXCEPT ![Main] = Append(@, Applied(step, articles, input, o)) ]
    /\ idx' = [ idx EXCEPT ![Main] = @ + 1 ]
    /\ UNCHANGED << user_query, plan, results, pc, outcome, calls >>
    /\ UNCHANGED << mobileVars, webVars >>

InitRank == \E name \in VariantNames : \E store \in RankSeeds(Variant(name)) : InitSteps(name, store)

\* rank_by_relevance() called once
RankStep ==
    /\ idx[Main] = 0
    /\ \E j \in [ 1..Len(articles) -> RankJitter ] :
          ApplyStep("rank_by_relevance", j, rank_by_relevance(Variant(pc[Main]), articles, j))

SpecRank == InitRank /\ [][RankStep]_vars

-----------------------------------------------------------------------------
(* analyze_content_quality, filter_tech_content and generate_summary_report  *)
(* called on the stores the pipeline produces from a few feeds, up to        *)
(* MaxSteps calls in any order.                                              *)

MaxSteps == 3

EntryChips == [ title |-> << "C","h","i","p","s" >>, link |-> << "m" >>, summary |-> << >> ]
EntryVotes == [ title |-> << "V","o","t","e","s"," ","c","o","u","n","t","e","d" >>,
                link |-> << "m" >>,
                summary |-> << "p","o","l","l" >> ]
EntryMap == [ title |-> << "O","l","d"," ","m","a","p" >>, link |-> << "p" >>, summary |-> << >> ]

PageLearning ==
    Page(<< "\n"," ","M","a","c","h","i","n","e"," ","L","e","a","r","n","i","n","g",
            " "," ","w","i","n","s",".","\t" >>)

\* what the link of an article serves
WebPage(link) ==
    CASE link = << "m" >> -> PageLearning
      [] link = << "u" >> -> Page(Repeat(<< "a", ".", " " >>, LongWords))
      [] link = << "v" >> -> PageLong
      [] link = << "p" >> -> Page(<< " ", "o", "l", "d", " ", " ", "m", "a", "p", "\n" >>)
      [] OTHER -> PageDown

WorldDown == << FeedDown, FeedDown, FeedDown, FeedDown >>
WorldNoEntries == << Feed(<< >>), Feed(<< >>), Feed(<< >>), Feed(<< >>) >>

\* five articles, the second and the fifth with a page on machine learning
WorldFive ==
    << Feed(<< EntryStorm, EntryChips >>), FeedDown, Feed(<< EntryBare, EntryMap >>),
       Feed(<< EntryVotes >>) >>

\* a feed of six entries, of which the fetch takes five, and two more articles
WorldSeven ==
    << Feed(<< EntryAI, EntryStorm, EntryBare, EntryUrgent, EntryChips, EntryMap >>),
       Feed(<< >>), FeedDown, Feed(<< EntryVotes, EntryUrgent >>) >>

StepWorlds == { WorldDown, WorldNoEntries, WorldFive, WorldSeven }

\* every page answers, or none does
StepPages(store) ==
    { [ i \in 1..Len(store) |-> WebPage(store[i].link) ],
      [ i \in 1..Len(store) |-> PageDown ] }

\* textstat gives every article the same value, or fails for every article
StepReads(store) ==
    { [ i \in 1..Len(store) |-> rd ] : rd \in ReadOutcomes }

Stores(outcomes) == { o.store : o \in outcomes }

\* the stores the steps of the canonical plan leave one after the other
FetchedStores(v) == { fetch_news_feeds(v, w).store : w \in StepWorlds }
ExtractedStores(v) ==
    UNION { Stores({ extract_article_content(v, st, pg) : pg \in StepPages(st) }) :
            st \in FetchedStores(v) }
ScoredStores(v) ==
    UNION { Stores({ analyze_content_quality(v, st, rd) : rd \in StepReads(st) }) :
            st \in ExtractedStores(v) }
RankedStores(v) ==
    { rank_by_relevance(v, summarize_articles(v, st).store,
                        [ i \in 1..Len(st) |-> IF i % 2 = 0 THEN JitterMax ELSE 0 ]).store :
         st \in ScoredStores(v) }

StepSeeds(v) == FetchedStores(v) \cup ExtractedStores(v) \cup ScoredStores(v) \cup RankedStores(v)

InitPipeline ==
    \E name \in VariantNames : \E store \in StepSeeds(Variant(name)) : InitSteps(name, store)

\* analyze_content_quality() called
AnalyzeStep ==
    /\ idx[Main] < MaxSteps
    /\ \E rd \in StepReads(articles) :
          ApplyStep("analyze_content_quality", rd,
                    analyze_content_quality(Variant(pc[Main]), articles, rd))

\* filter_tech_content() called
FilterStep ==
    /\ idx[Main] < MaxSteps
    /\ ApplyStep("filter_tech_content", << >>, filter_tech_content(Variant(pc[Main]), articles))

\* generate_summary_report() called
ReportStep ==
    /\ idx[Main] < MaxSteps
    /\ ApplyStep("generate_summary_report", << >>,
                 generate_summary_report(Variant(pc[Main]), articles))

NextPipeline == AnalyzeStep \/ FilterStep \/ ReportStep

SpecPipeline == InitPipeline /\ [][NextPipeline]_vars

-----------------------------------------------------------------------------
(* extract_article_content called once on a store that was just fetched,     *)
(* some of the pages longer than the bound the content is cut to.            *)

HugeWords == 700

\* a page of HugeWords words, 3 * HugeWords characters
PageHuge == Page(Repeat(<< "a", ".", " " >>, HugeWords))

ExtractPages == { PageDown, PageLearning, PageHuge }

InitExtract ==
    \E name \in VariantNames : \E store \in FetchedStores(Variant(name)) : InitSteps(name, store)

\* extract_article_content() called once
ExtractStep ==
    /\ idx[Main] = 0
    /\ \E pg \in [ 1..Len(articles) -> ExtractPages ] :
          ApplyStep("extract_article_content", pg,
                    extract_article_content(Variant(pc[Main]), articles, pg))

SpecExtract == InitExtract /\ [][ExtractStep]_vars

-----------------------------------------------------------------------------
(* fetch_news_feeds called once on a new agent, each of the four sources     *)
(* failing, answering without an entry, with one entry or with six.          *)

FeedOfSix == Feed(<< EntryAI, EntryStorm, EntryBare, EntryUrgent, EntryChips, EntryMap >>)

FeedChoices == { FeedDown, Feed(<< >>), Feed(<< EntryVotes >>), FeedOfSix }

InitFetch == \E name \in VariantNames : InitSteps(name, << >>)

\* fetch_news_feeds() called once
FetchStep ==
    /\ idx[Main] = 0
    /\ \E w \in [ 1..Len(news_sources) -> FeedChoices ] :
          ApplyStep("fetch_news_feeds", w, fetch_news_feeds(Variant(pc[Main]), w))

SpecFetch == InitFetch /\ [][FetchStep]_vars

-----------------------------------------------------------------------------
(* Each of the seven step functions called on the stores of the pipeline,    *)
(* among them a store of fifteen articles, up to MaxFrameSteps calls.        *)

MaxFrameSteps == 2

\* three feeds of six entries: five articles from each
WorldFifteen == << FeedOfSix, FeedOfSix, FeedDown, FeedOfSix >>

FrameWorlds == { WorldDown, WorldFive, WorldFifteen }

AllPagesUp(store) == [ i \in 1..Len(store) |-> WebPage(store[i].link) ]
AllReadsGood(store) == [ i \in 1..Len(store) |-> Read(70) ]
AlternatingJitter(store) == [ i \in 1..Len(store) |-> IF i % 2 = 0 THEN JitterMax ELSE 0 ]

\* the stores the steps leave one after the other, every page answering
FrameFetched(v) == { fetch_news_feeds(v, w).store : w \in FrameWorlds }
FrameExtracted(v) ==
    { extract_article_content(v, st, AllPagesUp(st)).store : st \in FrameFetched(v) }
FrameScored(v) ==
    { analyze_content_quality(v, st, AllReadsGood(st)).store : st \in FrameExtracted(v) }
FrameRanked(v) ==
    { rank_by_relevance(v, summarize_articles(v, st).store, AlternatingJitter(st)).store :
         st \in FrameScored(v) }

FrameSeeds(v) == FrameFetched(v) \cup FrameExtracted(v) \cup FrameScored(v) \cup FrameRanked(v)

InitFrame ==
    \E name \in VariantNames : \E store \in FrameSeeds(Variant(name)) : InitSteps(name, store)

\* what the environment answers to a call of `step` on the store
FrameInputs(step, store) ==
    CASE step = "fetch_news_feeds" -> FrameWorlds
      [] step = "extract_article_content" ->
            { AllPagesUp(store), [ i \in 1..Len(store) |-> PageDown ] }
      [] step = "analyze_content_quality" -> StepReads(store)
      [] step = "rank_by_relevance" ->
            { AlternatingJitter(store), [ i \in 1..Len(store) |-> 0 ] }
      [] OTHER -> { << >> }

\* the call of `step` with this answer of the environment
CallStep(v, step, store, input) ==
    CASE step = "fetch_news_feeds" -> fetch_news_feeds(v, input)
      [] step = "extract_article_content" -> extract_article_content(v, store, input)
      [] step = "analyze_content_quality" -> analyze_content_quality(v, store, input)
      [] step = "summarize_articles" -> summarize_articles(v, store)
      [] step = "rank_by_relevance" -> rank_by_relevance(v, store, input)
      [] step = "generate_summary_report" -> generate_summary_report(v, store)
      [] step = "filter_tech_content" -> filter_tech_content(v, store)

\* one of the seven step functions called
FrameStep(step) ==
    /\ idx[Main] < MaxFrameSteps
    /\ \E input \in FrameInputs(step, articles) :
          ApplyStep(step, input, CallStep(Variant(pc[Main]), step, articles, input))

NextFrame == \E step \in Catalogue : FrameStep(step)

SpecFrame == InitFrame /\ [][NextFrame]_vars

-----------------------------------------------------------------------------
(* NewsAgent.run called on one agent with a query that gets the fallback     *)
(* plan or with one that gets the canonical plan, on feeds of up to fifteen  *)
(* articles; every page and textstat answer the same way.                    *)

FallbackQueries == { << "h","i" >>, << "n","e","w","s" >> }

FallbackEnv ==
    [ worlds |-> { WorldDown, WorldNoEntries, WorldFive, WorldFifteen },
      pages |-> { PageLong },
      reads |-> { Read(70) },
      jitter |-> { JitterMax } ]

NextFallback ==
    \/ \E q \in FallbackQueries : Run(Main, q)
    \/ ExecuteStepIn(Main, FallbackEnv)
    \/ Return(Main)

SpecFallback == InitRuns /\ [][NextFallback]_vars

-----------------------------------------------------------------------------
(* Claims on the desktop executor *)

\* C1: execute_plan attempts the steps of the plan in plan order, and when it
\* has returned every step was attempted, the results mapping has an entry for
\* each step of the plan, the entry of a step that raised is the failure marker
\* with the failure text, and the entry of a step that returned is the record
\* it returned.
C1_ExecutePlanRecordsEveryStep ==
    LET r == Main IN
    /\ Len(attempted[r]) = idx[r]
    /\ \A i \in 1..Len(attempted[r]) : attempted[r][i].step = plan[r][i]
    /\ pc[r] = "returned" =>
          /\ idx[r] = Len(plan[r])
          /\ DOMAIN results[r] = StepNames(plan[r])
          /\ outcome[r] \in { results[r],
                               [ query |-> user_query[r], plan |-> plan[r],
                                 execution_results |-> results[r],
                                 articles_processed |-> Len(articles) ] }
          /\ \A i \in 1..Len(plan[r]) :
                results[r][plan[r][i]] =
                    IF attempted[r][i].raised
                    THEN [ error |-> attempted[r][i].result.exception ]
                    ELSE attempted[r][i].result

\* a returned call with a four-step plan of which exactly the second step raised
C1_Witness ==
    /\ pc[Main] = "returned"
    /\ Len(plan[Main]) = 4
    /\ { i \in 1..4 : attempted[Main][i].raised } = { 2 }
    /\ results[Main]["rank_by_relevance"].total_ranked > 0

\* C10: every run on a reused agent executes against a fresh store: the first
\* step of a run never reads articles an earlier run left behind, and what a
\* run returns does not depend on the runs before it (a run whose plan is the
\* filter alone returns what it returns on a new agent: nothing found, no
\* article processed).
C10_EveryRunStartsOnFreshStore ==
    LET r == Main IN
    /\ (pc[r] = "executing" /\ idx[r] = 0 /\ plan[r][1] # "fetch_news_feeds")
          => articles = << >>
    /\ (pc[r] = "returned" /\ plan[r] = << "filter_tech_content" >>
            /\ ~attempted[r][1].raised)
          => /\ results[r]["filter_tech_content"].tech_articles_found = 0
             /\ outcome[r].articles_processed = 0

-----------------------------------------------------------------------------
(* Claims on the mobile runner *)

Delivered(r) == pc[r] \in { "finally", "ended" }

\* C2: when a step of a run started by run_async raises, the failure is
\* recorded under the step's name in the results mapping, the later steps are
\* still attempted, and the run ends with the results callback, not with the
\* error callback.
C2_MobileStepFailureIsRecorded ==
    \A r \in Runs :
        (Delivered(r) /\ \E i \in 1..Len(attempted[r]) : attempted[r][i].raised) =>
            /\ outcome[r].type = "results"
            /\ \A i \in 1..Len(attempted[r]) :
                  attempted[r][i].raised =>
                      attempted[r][i].step \in DOMAIN outcome[r].data.execution_results
            /\ ~stopped[r] => Len(attempted[r]) = Len(plan[r])

\* C6: when stop() clears the flag after the k-th step of a run has completed
\* and before the (k+1)-th is checked, or while the k-th is in flight, and the
\* flag is still cleared when the run checks it, the results the run delivers
\* hold entries for exactly the first k steps of the plan.
C6_CancelledRunDeliversFirstSteps ==
    \A r \in Runs :
        (Delivered(r) /\ outcome[r].type = "results" /\ cancelAt[r] >= 0) =>
            DOMAIN outcome[r].data.execution_results =
                { plan[r][i] : i \in 1..cancelAt[r] }

\* the flag cleared after step 2 of the seven-step plan: two entries delivered
C6_Witness ==
    \E r \in Runs :
        /\ pc[r] = "ended"
        /\ outcome[r].type = "results"
        /\ cancelAt[r] = 2
        /\ Len(plan[r]) = 7
        /\ DOMAIN outcome[r].data.execution_results =
              { "fetch_news_feeds", "extract_article_content" }

\* C7: once stop() has been called after run_async returned, the run starts no
\* further step, whatever the interleaving (a stop() issued before the run
\* thread executed its first statement included).
C7_NoStepStartsAfterStop ==
    [][ \A r \in Runs : stopped[r] => ~(pc[r] = "check" /\ pc'[r] = "step") ]_vars

\* C9: two runs started by run_async on one agent are never inside a pipeline
\* step at the same time.
C9_OneRunInStepsAtATime ==
    Cardinality({ r \in Runs : pc[r] = "step" }) <= 1

-----------------------------------------------------------------------------
(* Claims on the web front end *)

\* C8: under every interleaving of concurrent POST /api/run_agent requests at
\* most one agent.run thread is alive at a time.
C8_AtMostOneRunThreadAlive ==
    Cardinality({ t \in Runs : IsAlive(t) }) <= 1

\* C11: GET /api/status answers exactly one of idle, running, completed; when
\* it answers completed, the results attached are those of the run accepted
\* last; and while an accepted run has not finished it answers running.
C11_StatusReportsLatestRun ==
    answer # NoAnswer =>
        /\ answer.status \in { "idle", "running", "completed" }
        /\ answer.status = "completed" =>
              /\ answer.latest # 0
              /\ answer.results = outcome[answer.latest]
        /\ answer.unfinished => answer.status = "running"

-----------------------------------------------------------------------------
(* Claims on the order of the store *)

NonIncreasing(store) ==
    \A i \in 1..(Len(store) - 1) : store[i].relevance_score >= store[i + 1].relevance_score

\* the order in which fetch_news_feeds appended the articles
InsertionOrder(store) ==
    \A i \in 1..(Len(store) - 1) : store[i].serial < store[i + 1].serial

Unscored(a) == [ a EXCEPT !.relevance_score = 0 ]

\* the same articles, the score aside, each exactly once
PermutationOf(new, old) ==
    /\ Len(new) = Len(old)
    /\ \E f \in [ 1..Len(old) -> 1..Len(old) ] :
          /\ \A i, j \in 1..Len(old) : f[i] = f[j] => i = j
          /\ \A i \in 1..Len(old) : Unscored(new[f[i]]) = Unscored(old[i])

\* the calls of `step` that returned, by position in the run
Completed(r, step) ==
    { i \in 1..Len(attempted[r]) : attempted[r][i].step = step /\ ~attempted[r][i].raised }

\* rank_by_relevance has returned in run r and the store was not fetched anew since
RankedInRun(r) ==
    \E i \in Completed(r, "rank_by_relevance") :
        \A j \in Completed(r, "fetch_news_feeds") : j < i

\* run r fetched the store and rank_by_relevance has not returned since
FetchedNotRanked(r) ==
    \E i \in Completed(r, "fetch_news_feeds") :
        \A j \in Completed(r, "rank_by_relevance") : j < i

\* the step of the executor that was just taken is a call of `step` that returned
JustCompleted(r, step) ==
    /\ Len(attempted'[r]) = Len(attempted[r]) + 1
    /\ Len(attempted'[r]) \in (Completed(r, step))'

\* C12: a call of rank_by_relevance that returns leaves a permutation of the
\* store it found, in non-increasing relevance_score order; the store stays in
\* non-increasing relevance_score order in every later state of the run
\* (through generate_summary_report and filter_tech_content); and from the
\* fetch of a run until rank_by_relevance has returned, the store is in the
\* order in which the feed entries were appended.
C12_StoreOrder ==
    [][ LET r == Main IN
        /\ JustCompleted(r, "rank_by_relevance") =>
               PermutationOf(articles', articles) /\ NonIncreasing(articles')
        /\ (RankedInRun(r))' => NonIncreasing(articles')
        /\ (FetchedNotRanked(r))' => InsertionOrder(articles') ]_vars

\* the seven-step plan has come to its last step without a failure, and the
\* rank has moved the article appended second to the head of the store
C12_Witness ==
    /\ pc[Main] = "executing"
    /\ Len(plan[Main]) = 7
    /\ idx[Main] = 6
    /\ \A i \in 1..6 : ~attempted[Main][i].raised
    /\ Len(articles) = 3
    /\ articles[1].serial = 2
    /\ articles[1].relevance_score > articles[3].relevance_score

-----------------------------------------------------------------------------
(* Claims on rank_by_relevance *)

\* where the article with this serial stands in the store
PositionOf(store, serial) == CHOOSE k \in 1..Len(store) : store[k].serial = serial

\* the key article i of the store the call found was sorted by
KeyOf(call, i) == BaseScore(call.before[i]) + call.input[i]

\* C13: rank_by_relevance sorts stably: two articles whose sort keys are equal
\* (equal base scores and equal jitter, or any other way) stand after the sort
\* in the relative order they had before the sort.
C13_RankIsStable ==
    (attempted[Main] # << >> /\ LastCall.step = "rank_by_relevance") =>
        LET before == LastCall.before
            key == [ i \in 1..Len(before) |-> KeyOf(LastCall, i) ]
            now == [ i \in 1..Len(before) |-> PositionOf(articles, before[i].serial) ]
        IN  \A i, j \in 1..Len(before) :
                (i < j /\ key[i] = key[j]) => now[i] < now[j]

\* a store of three that an earlier rank had reordered: two articles with equal
\* base scores and equal keys, the one appended later standing first, and a
\* third article with another key
C13_Witness ==
    /\ attempted[Main] # << >>
    /\ LastCall.step = "rank_by_relevance"
    /\ Len(LastCall.before) = 3
    /\ LastCall.before[2].serial > LastCall.before[3].serial
    /\ KeyOf(LastCall, 2) = KeyOf(LastCall, 3)
    /\ BaseScore(LastCall.before[2]) = BaseScore(LastCall.before[3])
    /\ KeyOf(LastCall, 1) # KeyOf(LastCall, 2)
    /\ articles[2].serial = LastCall.before[2].serial
    /\ articles[3].serial = LastCall.before[3].serial

\* C14: whatever the random terms, an article whose deterministic score
\* (urgency bonus + quality_score + readability bonus) exceeds another's by
\* more than 10 is placed before it; the random term added to each article is
\* an integer of 0..10; and every relevance_score lies in 0..100.
C14_JitterDoesNotInvertGaps ==
    (attempted[Main] # << >> /\ LastCall.step = "rank_by_relevance") =>
        LET before == LastCall.before
            base == [ i \in 1..Len(before) |-> BaseScore(before[i]) ]
            now == [ i \in 1..Len(before) |-> PositionOf(articles, before[i].serial) ]
        IN  /\ \A i, j \in 1..Len(before) :
                  base[i] > base[j] + 10 => now[i] < now[j]
            /\ \A i \in 1..Len(before) :
                  /\ articles[now[i]].relevance_score - base[i] \in 0..10
                  /\ articles[now[i]].relevance_score \in 0..100
            /\ Len(articles) = Len(before)

\* the article standing second has a deterministic score 20 above that of the
\* first, draws 0 while the first draws 10, and is moved to the head; another
\* article of the store reaches neither
C14_Witness ==
    /\ attempted[Main] # << >>
    /\ LastCall.step = "rank_by_relevance"
    /\ Len(LastCall.before) = 3
    /\ BaseScore(LastCall.before[2]) = BaseScore(LastCall.before[1]) + 20
    /\ LastCall.input[1] = 10
    /\ LastCall.input[2] = 0
    /\ articles[1].serial = LastCall.before[2].serial
    /\ articles[1].relevance_score = articles[2].relevance_score + 10

-----------------------------------------------------------------------------
(* Claims on filter_tech_content *)

\* the positions of the articles of the store whose text holds a tech keyword
TechPositions(store) ==
    { i \in 1..Len(store) :
         \E w \in FilterKeywords :
             Contains(w, Lower(store[i].title \o << " " >> \o store[i].summary
                                 \o << " " >> \o store[i].content)) }

\* sub is the articles of store at the positions of S, unchanged, in store order
IsSelection(sub, store, S) ==
    /\ Len(sub) = Cardinality(S)
    /\ \A k \in 1..Len(sub) :
          \E i \in S : /\ Cardinality({ j \in S : j <= i }) = k
                       /\ sub[k] = store[i]

\* C15: filter_tech_content replaces the store with the articles whose
\* lower-cased title + summary + content holds a tech keyword as a substring,
\* in their former order and with every field unchanged; tech_articles_found
\* is the size of the store it leaves; and a second call changes nothing.
C15_FilterKeepsMatchingInOrder ==
    (attempted[Main] # << >> /\ LastCall.step = "filter_tech_content") =>
        /\ ~LastCall.raised
        /\ IsSelection(articles, LastCall.before, TechPositions(LastCall.before))
        /\ LastCall.result = [ tech_articles_found |-> Len(articles) ]
        /\ (Len(attempted[Main]) > 1 /\ attempted[Main][Len(attempted[Main]) - 1].step = "filter_tech_content")
              => articles = LastCall.before

\* a store of five of which exactly the second and the fifth article match, by
\* 'machine learning' in their content: the filter left these two, in order,
\* and a second call left them again
C15_Witness ==
    /\ Len(attempted[Main]) = 2
    /\ attempted[Main][1].step = "filter_tech_content"
    /\ attempted[Main][2].step = "filter_tech_content"
    /\ Len(attempted[Main][1].before) = 5
    /\ TechPositions(attempted[Main][1].before) = { 2, 5 }
    /\ attempted[Main][1].result.tech_articles_found = 2
    /\ Len(articles) = 2
    /\ articles[1].serial = 2
    /\ articles[2].serial = 5
    /\ Contains(<< "m","a","c","h","i","n","e"," ","l","e","a","r","n","i","n","g" >>,
                Lower(articles[1].content))

-----------------------------------------------------------------------------
(* Claims on generate_summary_report *)

\* C16: generate_summary_report on an empty store returns the 'no articles'
\* marker and does not raise, in both classes and wherever the store became
\* empty (every feed failed, no feed had an entry, the filter removed every
\* article); on a store of n > 0 articles it returns a report whose
\* total_articles_processed is n and whose top_articles are the first
\* min(K, n) articles in store order with ranks 1..min(K, n), K being 5 on the
\* desktop and 3 on the mobile agent.  The store is left as it was.
C16_ReportOnEmptyAndNonEmptyStore ==
    (attempted[Main] # << >> /\ LastCall.step = "generate_summary_report") =>
        LET before == LastCall.before
            n == Len(before)
            K == IF pc[Main] = "desktop" THEN 5 ELSE 3
            shown == IF n < K THEN n ELSE K
        IN  /\ ~LastCall.raised
            /\ articles = before
            /\ IF n = 0
               THEN LastCall.result = [ report |-> "No articles found to summarize." ]
               ELSE /\ LastCall.result.total_articles_processed = n
                    /\ DOMAIN LastCall.result.top_articles = 1..shown
                    /\ \A k \in 1..shown :
                          LET e == LastCall.result.top_articles[k] IN
                          /\ e.rank = k
                          /\ e.title = before[k].title
                          /\ e.link = before[k].link
                          /\ e.relevance_score = before[k].relevance_score
                          /\ e.word_count = before[k].word_count

\* the mobile agent reports on a store of five (three entries), the filter
\* then removes every article, and the next report is the marker
C16_Witness ==
    /\ pc[Main] = "mobile"
    /\ Len(attempted[Main]) = 3
    /\ attempted[Main][1].step = "generate_summary_report"
    /\ Len(attempted[Main][1].before) = 5
    /\ Len(attempted[Main][1].result.top_articles) = 3
    /\ attempted[Main][2].step = "filter_tech_content"
    /\ attempted[Main][2].result.tech_articles_found = 0
    /\ attempted[Main][3].step = "generate_summary_report"
    /\ attempted[Main][3].result = NoArticlesReport
    /\ articles = << >>
-----------------------------------------------------------------------------
(* Claims on analyze_content_quality *)

\* 20*[word_count > 100] + 20*[word_count > 300] + 10*[title longer than 10]
\* + 10*[summary not empty]
QualityFormula(a) ==
      20 * (IF a.word_count > 100 THEN 1 ELSE 0)
    + 20 * (IF a.word_count > 300 THEN 1 ELSE 0)
    + 10 * (IF Len(a.title) > 10 THEN 1 ELSE 0)
    + 10 * (IF Len(a.summary) > 0 THEN 1 ELSE 0)

\* C17: a call of analyze_content_quality that returns gives every article
\* with content the quality_score of the formula and leaves that of the others
\* alone; a second call right after a call that returned leaves every
\* quality_score as the first call left it.
C17_QualityScoreIsIdempotent ==
    (attempted[Main] # << >> /\ LastCall.step = "analyze_content_quality") =>
        LET before == LastCall.before
            k == Len(attempted[Main])
        IN  /\ Len(articles) = Len(before)
            /\ ~LastCall.raised =>
                  \A i \in 1..Len(articles) :
                      articles[i].quality_score =
                          IF before[i].content # << >> THEN QualityFormula(before[i])
                          ELSE before[i].quality_score
            /\ (k > 1 /\ attempted[Main][k - 1].step = "analyze_content_quality"
                      /\ ~attempted[Main][k - 1].raised) =>
                  \A i \in 1..Len(articles) :
                      articles[i].quality_score = before[i].quality_score

\* two calls in a row on the desktop agent, on a store that was not scored
\* before: the first gives an article of 101 words 20 and one of 301 words 60,
\* the second (textstat answering otherwise) leaves them
C17_Witness ==
    /\ pc[Main] = "desktop"
    /\ Len(attempted[Main]) = 2
    /\ attempted[Main][1].step = "analyze_content_quality"
    /\ attempted[Main][2].step = "analyze_content_quality"
    /\ ~attempted[Main][1].raised
    /\ ~attempted[Main][2].raised
    /\ attempted[Main][1].input # attempted[Main][2].input
    /\ \A i \in 1..Len(attempted[Main][1].before) :
          attempted[Main][1].before[i].quality_score = NoScore
    /\ \E i, j \in 1..Len(articles) :
          /\ articles[i].word_count = 101 /\ articles[i].quality_score = 20
          /\ articles[j].word_count = 301 /\ articles[j].quality_score = 60

-----------------------------------------------------------------------------
(* Claims on the report and the filter of one run *)

HasBoth(p) ==
    /\ \E i \in 1..Len(p) : p[i] = "generate_summary_report"
    /\ \E i \in 1..Len(p) : p[i] = "filter_tech_content"

\* C18: in a run whose plan holds both generate_summary_report and
\* filter_tech_content, the report step has completed when the filter step
\* starts; a report that was returned is built from the store the filter then
\* finds (total_articles_processed is its size, the marker stands for the
\* empty store); and the run's articles_processed is the size of the store
\* after the filter, never larger than the report's total.
C18_ReportPrecedesFilter ==
    [][ LET r == Main
            n == Len(attempted[r])
        IN
        /\ (pc[r] = "executing" /\ HasBoth(plan[r]) /\ Len(attempted'[r]) = n + 1
                /\ attempted'[r][n + 1].step = "filter_tech_content") =>
              /\ \E i \in 1..n : attempted[r][i].step = "generate_summary_report"
              /\ \A i \in 1..n :
                    (attempted[r][i].step = "generate_summary_report" /\ ~attempted[r][i].raised) =>
                        IF articles = << >>
                        THEN attempted[r][i].result = [ report |-> "No articles found to summarize." ]
                        ELSE attempted[r][i].result.total_articles_processed = Len(articles)
              /\ ~attempted'[r][n + 1].raised =>
                    attempted'[r][n + 1].result.tech_articles_found = Len(articles')
        /\ (pc[r] = "executing" /\ pc'[r] = "returned" /\ HasBoth(plan[r])) =>
              /\ outcome'[r].articles_processed = Len(articles)
              /\ \A i, j \in 1..n :
                    (/\ attempted[r][i].step = "generate_summary_report"
                     /\ ~attempted[r][i].raised
                     /\ attempted[r][j].step = "filter_tech_content"
                     /\ ~attempted[r][j].raised) =>
                        /\ i < j
                        /\ attempted[r][j].result.tech_articles_found =
                              outcome'[r].articles_processed
                        /\ Len(articles) > 0 =>
                              outcome'[r].articles_processed
                                 <= attempted[r][i].result.total_articles_processed ]_vars

\* a run on 'Tech news' without a failure: the report counts three articles and
\* shows the storm article, the filter keeps one, and the run reports one
C18_Witness ==
    /\ pc[Main] = "returned"
    /\ Len(plan[Main]) = 7
    /\ \A i \in 1..7 : ~attempted[Main][i].raised
    /\ results[Main]["fetch_news_feeds"].total_articles = 3
    /\ results[Main]["generate_summary_report"].total_articles_processed = 3
    /\ \E k \in 1..3 :
          /\ results[Main]["generate_summary_report"].top_articles[k].title
                = << "M","a","j","o","r"," ","s","t","o","r","m" >>
          /\ \A i \in 1..Len(articles) :
                articles[i].title # << "M","a","j","o","r"," ","s","t","o","r","m" >>
    /\ results[Main]["filter_tech_content"].tech_articles_found = 1
    /\ outcome[Main].articles_processed = 1

-----------------------------------------------------------------------------
(* Claims on extract_article_content *)

\* the number of maximal runs of non-blank characters
Words(text) ==
    Cardinality({ i \in 1..Len(text) :
                     /\ text[i] \notin { " ", "\n", "\t" }
                     /\ (i = 1 \/ text[i - 1] \in { " ", "\n", "\t" }) })

\* C19: in every state, the word_count of each article is the number of
\* whitespace-separated words of the content the article holds (0 for empty
\* content), also when the extracted text was longer than the bound it is cut
\* to (2000 on the desktop, 1500 on the mobile agent).
C19_WordCountMatchesContent ==
    \A i \in 1..Len(articles) : articles[i].word_count = Words(articles[i].content)

-----------------------------------------------------------------------------
(* Claims on fetch_news_feeds *)

\* the articles of the store that came from source number src
FromSource(store, src) == { i \in 1..Len(store) : store[i].source = news_sources[src] }

\* C20: fetch_news_feeds reports as successful_sources the number of sources
\* that yielded at least one entry and (desktop) as failed_sources the number
\* of sources that failed; a failing source contributes no article and does
\* not keep the others from contributing; no source contributes more than 5
\* articles; and total_articles is the size of the store after the step.
C20_FetchCountsSources ==
    (attempted[Main] # << >> /\ LastCall.step = "fetch_news_feeds") =>
        LET feeds == LastCall.input
            all == 1..Len(news_sources)
            expected(src) == IF ~feeds[src].ok THEN 0
                             ELSE IF Len(feeds[src].entries) > 5 THEN 5
                             ELSE Len(feeds[src].entries)
        IN  /\ ~LastCall.raised
            /\ LastCall.result.total_articles = Len(articles)
            /\ \A src \in all : Cardinality(FromSource(articles, src)) = expected(src)
            /\ LastCall.result.successful_sources =
                  Cardinality({ src \in all : feeds[src].ok /\ Len(feeds[src].entries) >= 1 })
            /\ pc[Main] = "desktop" =>
                  LastCall.result.failed_sources = Cardinality({ src \in all : ~feeds[src].ok })

\* what C21 states, for the calls made on an agent of the classes in `names`
ReadabilityFailureIsAbsorbed(names) ==
    (attempted[Main] # << >> /\ LastCall.step = "analyze_content_quality"
        /\ pc[Main] \in names) =>
        LET before == LastCall.before
            reads == LastCall.input
        IN  /\ ~LastCall.raised
            /\ Len(articles) = Len(before)
            /\ \A i \in 1..Len(before) :
                  before[i].content # << >> =>
                      /\ articles[i].readability_score =
                            IF reads[i].ok THEN reads[i].value ELSE 50
                      /\ articles[i].quality_score = QualityFormula(before[i])
            /\ LastCall.result.analyzed_articles =
                  Cardinality({ i \in 1..Len(before) : before[i].content # << >> })

\* C21: in analyze_content_quality of both classes, when the readability
\* computation fails for an article, the article gets the neutral default
\* readability score (50) and its quality_score is still computed, the
\* remaining articles are still analysed, and the step returns its normal
\* result record instead of raising.
C21_ReadabilityFailureIsAbsorbed ==
    ReadabilityFailureIsAbsorbed({ "desktop", "mobile" })

-----------------------------------------------------------------------------
(* Claims on what the steps leave alone *)

Serials(store) == [ i \in 1..Len(store) |-> store[i].serial ]

\* C22: extract_article_content, analyze_content_quality, summarize_articles
\* and generate_summary_report leave the membership and the order of the store
\* as they were, the report step leaves every field as well, the extraction
\* leaves every article past the first 10 (desktop) or 5 (mobile) as it was;
\* rank_by_relevance keeps the membership, filter_tech_content keeps a part of
\* it; and no step but fetch_news_feeds makes the store longer.
C22_StepsKeepMembershipAndOrder ==
    attempted[Main] # << >> =>
        LET before == LastCall.before
            step == LastCall.step
            limit == IF pc[Main] = "desktop" THEN 10 ELSE 5
        IN  /\ step \in { "extract_article_content", "analyze_content_quality",
                           "summarize_articles", "generate_summary_report" } =>
                  Serials(articles) = Serials(before)
            /\ step = "generate_summary_report" => articles = before
            /\ step = "extract_article_content" =>
                  \A i \in 1..Len(before) : i > limit => articles[i] = before[i]
            /\ step = "rank_by_relevance" =>
                  /\ Len(articles) = Len(before)
                  /\ { articles[i].serial : i \in 1..Len(articles) }
                        = { before[i].serial : i \in 1..Len(before) }
            /\ step = "filter_tech_content" =>
                  { articles[i].serial : i \in 1..Len(articles) }
                     \subseteq { before[i].serial : i \in 1..Len(before) }
            /\ step # "fetch_news_feeds" => Len(articles) <= Len(before)

\* the desktop agent extracts on a store of fifteen whose pages all answer:
\* the tenth article has its content, the eleventh, with a link too, has none
C22_Witness ==
    /\ pc[Main] = "desktop"
    /\ Len(attempted[Main]) = 1
    /\ LastCall.step = "extract_article_content"
    /\ Len(articles) = 15
    /\ LastCall.input[11].ok
    /\ articles[11].link # << >>
    /\ articles[11].content = << >>
    /\ articles[10].content # << >>
    /\ LastCall.result.extracted_articles = 6

-----------------------------------------------------------------------------
(* Claims on the fallback plan *)

\* C23: a run of the three-step fallback plan whose steps all returned leaves
\* every article without content and with relevance_score 0; its
\* summarized_articles is 0; every ai_summary is the feed summary cut to 200
\* characters or the placeholder; and its report lists the first 5 articles
\* in feed insertion order, each with relevance_score 0, the average 0 and the
\* label 'Basic'.
C23_FallbackPlanReport ==
    LET r == Main IN
    (/\ pc[r] = "returned"
     /\ plan[r] = << "fetch_news_feeds", "summarize_articles", "generate_summary_report" >>
     /\ \A i \in 1..Len(attempted[r]) : ~attempted[r][i].raised) =>
        LET n == Len(articles)
            report == results[r]["generate_summary_report"]
        IN  /\ results[r]["summarize_articles"] = [ summarized_articles |-> 0 ]
            /\ results[r]["fetch_news_feeds"].total_articles = n
            /\ \A i \in 1..n :
                  /\ articles[i].content = << >>
                  /\ articles[i].relevance_score = 0
                  /\ articles[i].serial = i
                  /\ articles[i].ai_summary =
                        IF Len(articles[i].summary) = 0
                        THEN << "N","o"," ","s","u","m","m","a","r","y"," ",
                                "a","v","a","i","l","a","b","l","e" >>
                        ELSE SubSeq(articles[i].summary, 1,
                                    IF Len(articles[i].summary) < 200
                                    THEN Len(articles[i].summary) ELSE 200)
            /\ IF n = 0
               THEN report = [ report |-> "No articles found to summarize." ]
               ELSE /\ report.total_articles_processed = n
                    /\ DOMAIN report.top_articles = 1..(IF n < 5 THEN n ELSE 5)
                    /\ \A k \in DOMAIN report.top_articles :
                          /\ report.top_articles[k].rank = k
                          /\ report.top_articles[k].relevance_score = 0
                          /\ report.top_articles[k].title = articles[k].title
                          /\ report.top_articles[k].summary = articles[k].ai_summary
                    /\ report.insights.average_relevance_score = 0
                    /\ report.insights.content_quality = "Basic"

\* the second run on an agent, under the fallback plan, on fifteen articles
\* of which some have a feed summary
C23_Witness ==
    /\ calls = 2
    /\ pc[Main] = "returned"
    /\ plan[Main] = << "fetch_news_feeds", "summarize_articles", "generate_summary_report" >>
    /\ \A i \in 1..3 : ~attempted[Main][i].raised
    /\ Len(articles) = 15
    /\ Len(results[Main]["generate_summary_report"].top_articles) = 5
    /\ articles[2].ai_summary = << "w","e","t" >>
    /\ articles[3].ai_summary = NoSummaryAvailable

-----------------------------------------------------------------------------
(* Claims on the end of a mobile run *)

\* the thread of run r is between run_task's first statement and its finally
InRunTask(r) == pc[r] \in { "check", "step", "finish", "except", "finally" }

\* C24: every run started by run_async ends: its thread reaches its end; it
\* started each step of its plan at most once, in plan order; by the time the
\* thread has ended it has delivered the 'results' or the 'error' callback;
\* and is_running is False when the thread has ended and no other run's
\* thread is inside run_task.
C24_RunTerminates ==
    /\ \A r \in Runs : (pc[r] = "started") ~> (pc[r] = "ended")
    /\ [](\A r \in Runs :
            /\ Len(attempted[r]) <= Len(plan[r])
            /\ \A i \in 1..Len(attempted[r]) : attempted[r][i].step = plan[r][i]
            /\ \A i, j \in 1..Len(attempted[r]) :
                  i # j => attempted[r][i].step # attempted[r][j].step
            /\ pc[r] = "ended" =>
                  /\ outcome[r].type \in { "results", "error" }
                  /\ (\A o \in Runs : ~InRunTask(o)) => ~is_running)

\* one run ended by an exception in its second step, another cut short by
\* stop() after its first step, both threads ended
C24_Witness ==
    \E r, o \in Runs :
        /\ pc[r] = "ended" /\ pc[o] = "ended"
        /\ outcome[r].type = "error"
        /\ Len(attempted[r]) = 2
        /\ outcome[o].type = "results"
        /\ stopped[o]
        /\ Len(attempted[o]) = 1 /\ Len(plan[o]) = 3
        /\ ~is_running

====
